---- MODULE Spec2Model ----
(***************************************************************************)
(* Model of the selection resolver of the Lingua AI Reader                 *)
(* (src/src/hooks/useTextSelection.ts, with the pendingTap revision of the *)
(* same hook in src/unnamed/part_003).                                     *)
(*                                                                         *)
(* A text is a sequence of characters; a character is a one-element atom   *)
(* written as a string.  Characters outside ASCII are written by name      *)
(* (InvQ for the inverted question mark, and so on).                       *)
(***************************************************************************)
EXTENDS Integers, Sequences, FiniteSets, TLC

VARIABLES
    hook,            \* which revision of the hook is mounted: "coords" or "pending"
    caretApis,       \* the point-to-text lookups the runtime has
    now,             \* Date.now(), in ms
    selection,       \* the live SelectionResult (React state), or NULL
    nativeSel,       \* window.getSelection(): NULL when collapsed or without a range
    selChangeQueued, \* a selectionchange event is queued for the document
    selTimers,       \* deadlines of the pending setTimeout(handleSelectionChange) calls
    selTimeout,      \* the handle the hook keeps: the deadline of the timer it set last
    touchStart,      \* "coords" revision: {x, y, time} of the touch, or NULL
    pendingTap,      \* "pending" revision: {node, offset, x, y, time}, or NULL
    lastTapTime,     \* time of the last tap that passed the dedup
    lastNotify,      \* history: time of the last selectionchange notification
    burst,           \* history: notifications since the debounce timer was last idle (up to 2)
    selOrigin,       \* history: who set nativeSel last: "none", "user" or "tap"
    gesture,         \* history: the current touch gesture
    last,            \* history: what the last step emitted: "none", "word" or "phrase"
    tText,           \* SpecText: the paragraph's flat text (one text node)
    tOffset,         \* SpecText: the caret offset of the tap
    tResult,         \* SpecText: UNSET, or what the tap at tOffset resolved
    layoutShift,     \* how far the rendered text has moved left since the page was laid out, in px
    startWord,       \* history: the word that was under the finger when the touch started
    listeners,       \* the events the hook has a listener registered for
    chapterIndex,    \* Reader: the chapter displayed
    prevSel,         \* Reader: prevSelRef.current, the text the last gloss request was made for
    glossRequest,    \* the gloss request the last step issued, or NULL
    askedText,       \* history: the text of the last request since the last dismissal
    selChapter,      \* history: the chapter that was displayed when the live result was emitted
    gloss,           \* useGloss: the gloss shown, or NULL
    loading,         \* useGloss: a request is being fetched
    error,           \* useGloss: {message} of the failed request, or NULL
    glossCache,      \* localStorage, the items under the gloss prefix: {key, value}
    inFlight,        \* the fetchGloss calls that have not settled: {id, req}
    fetchCount,      \* the fetchGloss calls made so far
    settled,         \* history: the fetch the last step settled, {id, req, ok}, or NULL
    fetched,         \* history: the requests whose fetch succeeded
    latest,          \* history: the last requestGloss call since clearGloss, {req, id} (id 0: cached)
    bookData,        \* Reader: the book, {loaded, isPreface of each chapter}
    scrollY,         \* window.scrollY, in half pixels
    positions,       \* localStorage, the items under the reading-position prefix
    frames,          \* the requestAnimationFrame callbacks not yet run, in order
    ticking,         \* useReadingPosition: the scroll listeners whose save is scheduled
    savedOn,         \* history: the chapter displayed when a position was last saved, or -1
    scrolledAt,      \* history: chapter -> last scroll position while it was displayed, or -1
    restored         \* history: the restore the last step made, {chapter, to, want}, or NULL

\* null, for every optional value (a record, so that it compares with records)
NULL == [null |-> TRUE]

(***************************************************************************)
(* Characters                                                              *)
(***************************************************************************)
InvQ == "(inv?)"
InvE == "(inv!)"
EmDash == "(em-dash)"
EnDash == "(en-dash)"
LGuil == "(<<)"
RGuil == "(>>)"
Eacute == "(E')"
eacute == "(e')"
oacute == "(o')"
aacute == "(a')"
uacute == "(u')"

\* \s of the regular expressions
WhiteSpace == {" ", "\t", "\n"}

\* [.!?] of the sentence-end search
Terminators == {".", "!", "?"}

\* [.,;:!?¿¡"'«»—\-] of the stripping replace
StripChars == {".", ",", ";", ":", "!", "?", InvQ, InvE, "\"", "'", LGuil, RGuil, EmDash, "-"}

IsSpace(c) == c \in WhiteSpace
NonSpace(c) == c \notin WhiteSpace

(***************************************************************************)
(* String primitives of the runtime, on 0-based indices as in the source   *)
(***************************************************************************)
SetMax(S) == CHOOSE m \in S : \A n \in S : n <= m
SetMin(S) == CHOOSE m \in S : \A n \in S : m <= n
Clamp(i, n) == IF i < 0 THEN 0 ELSE IF i > n THEN n ELSE i

\* s.slice(a, b) for a, b >= 0
Slice(s, a, b) == SubSeq(s, Clamp(a, Len(s)) + 1, Clamp(b, Len(s)))

\* s.slice(a)
SliceFrom(s, a) == Slice(s, a, Len(s))

\* s.indexOf(t): first index at which t occurs in s, -1 when none
IndexOf(s, t) ==
    LET hits == {i \in 0..(Len(s) - Len(t)) : SubSeq(s, i + 1, i + Len(t)) = t}
    IN IF hits = {} THEN -1 ELSE SetMin(hits)

\* s.lastIndexOf(t)
LastIndexOf(s, t) ==
    LET hits == {i \in 0..(Len(s) - Len(t)) : SubSeq(s, i + 1, i + Len(t)) = t}
    IN IF hits = {} THEN -1 ELSE SetMax(hits)

\* s.search(/[.!?]\s|[.!?]$/)
SearchSentenceEnd(s) ==
    LET hits == {i \in 0..(Len(s) - 1) :
                    /\ s[i + 1] \in Terminators
                    /\ \/ i + 1 = Len(s)
                       \/ (i + 1 < Len(s) /\ IsSpace(s[i + 2]))}
    IN IF hits = {} THEN -1 ELSE SetMin(hits)

\* s.trim()
Trim(s) ==
    LET keep == {i \in 1..Len(s) : NonSpace(s[i])}
    IN IF keep = {} THEN <<>> ELSE SubSeq(s, SetMin(keep), SetMax(keep))

\* s.replace(/^[P]+|[P]+$/g, "") for the punctuation class P
StripPunctuation(s) ==
    LET keep == {i \in 1..Len(s) : s[i] \notin StripChars}
    IN IF keep = {} THEN <<>> ELSE SubSeq(s, SetMin(keep), SetMax(keep))

(***************************************************************************)
(* extractSentence: the sentence around offset `offset` of the text node   *)
(* whose text is textContent, inside the paragraph with flat text          *)
(* paragraphText.                                                          *)
(***************************************************************************)
SentenceStart(beforeText) ==
    SetMax({ LastIndexOf(beforeText, <<".", " ">>) + 2,
             LastIndexOf(beforeText, <<"!", " ">>) + 2,
             LastIndexOf(beforeText, <<"?", " ">>) + 2,
             LastIndexOf(beforeText, <<InvQ>>),
             LastIndexOf(beforeText, <<InvE>>),
             0 })

\* SentenceEnd without the step over the terminator
SentenceEndBeforeTerminator(afterText) ==
    LET found == SearchSentenceEnd(afterText)
    IN IF found = -1 THEN Len(afterText) ELSE found

SentenceEnd(afterText) ==
    LET found == SearchSentenceEnd(afterText)
    IN IF found = -1 THEN Len(afterText) ELSE found + 1

extractSentence(textContent, paragraphText, offset) ==
    LET at == IndexOf(paragraphText, textContent) + offset
        beforeText == Slice(paragraphText, 0, at)
        afterText == SliceFrom(paragraphText, at)
    IN Trim(SliceFrom(beforeText, SentenceStart(beforeText))
            \o Slice(afterText, 0, SentenceEnd(afterText)))

(***************************************************************************)
(* getWordAtPoint: the token under the caret, stripped, with the range     *)
(* [start, end) of the stripped word in the node.                          *)
(***************************************************************************)
RECURSIVE ScanLeft(_, _)
ScanLeft(text, start) ==
    IF start > 0 /\ NonSpace(text[start]) THEN ScanLeft(text, start - 1) ELSE start

RECURSIVE ScanRight(_, _)
ScanRight(text, end) ==
    IF end < Len(text) /\ NonSpace(text[end + 1]) THEN ScanRight(text, end + 1) ELSE end

\* getWordAtPoint with the range starting at the token's start, not at the stripped word's
getWordAtPointTokenStart(text, offset) ==
    IF offset >= Len(text) THEN NULL
    ELSE LET start == ScanLeft(text, offset)
             end == ScanRight(text, offset)
             word == StripPunctuation(Slice(text, start, end))
         IN IF word = <<>> THEN NULL
            ELSE [word |-> word, start |-> start, end |-> start + Len(word)]

getWordAtPoint(text, offset) ==
    IF offset >= Len(text) THEN NULL
    ELSE LET start == ScanLeft(text, offset)
             end == ScanRight(text, offset)
             token == Slice(text, start, end)
             word == StripPunctuation(token)
             strippedStart == start + IndexOf(token, word)
         IN IF word = <<>> THEN NULL
            ELSE [word |-> word, start |-> strippedStart, end |-> strippedStart + Len(word)]

(***************************************************************************)
(* The core of selectWordAt for a caret inside the surface: the word, its  *)
(* sentence and the range committed to the native selection.               *)
(***************************************************************************)
WordResult(textContent, paragraphText, offset) ==
    LET result == getWordAtPoint(textContent, offset)
    IN IF result = NULL THEN NULL
       ELSE [text |-> result.word,
             sentence |-> extractSentence(textContent, paragraphText, offset),
             start |-> result.start,
             end |-> result.end]

(***************************************************************************)
(* The rendered surface.  The container holds one paragraph, rendered as   *)
(* <p data-paragraph> with a single text node; the book title is a text    *)
(* node outside the container.                                             *)
(***************************************************************************)
Paragraph ==
    <<"H", "o", "l", "a", ".", ".", ".", " ", EmDash, " ", InvQ, "y", " ", "t", uacute, "?">>

Title == <<"L", "i", "b", "r", "o">>

Nodes == {"p0", "title"}

\* the paragraph of the chapters after the first
ParagraphAdios == <<"A", "d", "i", oacute, "s", ".">>

\* currentChapter.paragraphs, one paragraph per chapter
ChapterText(i) == IF i = 0 THEN Paragraph ELSE ParagraphAdios

NodeText(node) == IF node = "p0" THEN ChapterText(chapterIndex) ELSE Title

\* container.contains(node)
NodeInside(node) == node = "p0"

\* el?.textContent || textContent, el the closest P or data-paragraph ancestor
ParagraphTextOf(node) == NodeText(node)

\* layout of the model: one line per node, characters of equal width
CharWidth == 10
LineHeight == 20

Abs(i) == IF i < 0 THEN -i ELSE i

\* what the runtime's point-to-text lookup answers at (x, y)
PlatformCaretAt(x, y) ==
    LET node == IF y < LineHeight THEN "p0" ELSE "title"
        col == (x + layoutShift) \div CharWidth
    IN IF y >= 2 * LineHeight THEN NULL
       ELSE [node |-> node,
             offset |-> IF col > Len(NodeText(node)) THEN Len(NodeText(node)) ELSE col]

getCaretAt(x, y) ==
    IF "caretRangeAtPoint" \in caretApis /\ PlatformCaretAt(x, y) # NULL
    THEN PlatformCaretAt(x, y)
    ELSE IF "caretPositionFromPoint" \in caretApis /\ PlatformCaretAt(x, y) # NULL
    THEN PlatformCaretAt(x, y)
    ELSE NULL

\* sel.toString() of a range inside one text node
SelText(sel) == Slice(NodeText(sel.node), sel.start, sel.end)

(***************************************************************************)
(* Program constants                                                       *)
(***************************************************************************)
DebounceMs == 300
DedupMs == 400
TapMaxMs == 500
TapMaxMove == 10
SentenceCap == 200

(***************************************************************************)
(* Bounds and inputs of the model                                          *)
(***************************************************************************)
StartTime == 1000
Tick == 100
MaxTime == 1500

\* the platform delivers the click of a touch at most this long after the touch ended
ClickWait == 300

\* points a touch or a click may land on
TapPoints ==
    { [x |-> 15, y |-> 5],      \* inside "Hola..."
      [x |-> 85, y |-> 5],      \* on the em dash
      [x |-> 115, y |-> 5],     \* on the "y" of the second sentence
      [x |-> 15, y |-> 25],     \* on the title, outside the container
      [x |-> 15, y |-> 45] }    \* on no text at all

\* displacement of a touch between its start and its end
Moves == { [dx |-> 0, dy |-> 0], [dx |-> 10, dy |-> 0], [dx |-> 0, dy |-> 10] }

\* ranges the user can select natively (long-press and drag, click-drag)
DragRanges ==
    { [node |-> "p0", start |-> 4, end |-> 7, startIsText |-> TRUE],      \* ...
      [node |-> "p0", start |-> 9, end |-> 15, startIsText |-> TRUE],     \* " ¿y tú"
      [node |-> "p0", start |-> 0, end |-> 16, startIsText |-> FALSE],    \* the whole <p>
      [node |-> "title", start |-> 0, end |-> 5, startIsText |-> TRUE] }  \* Libro

NoGesture ==
    [phase |-> "none", t0 |-> 0, x0 |-> 0, y0 |-> 0, slow |-> FALSE, endTime |-> 0,
     x |-> 0, y |-> 0, touchWord |-> FALSE, clickWord |-> FALSE, clickDelay |-> 0]

vars ==
    <<hook, caretApis, now, selection, nativeSel, selChangeQueued, selTimers, selTimeout,
      touchStart, pendingTap, lastTapTime, lastNotify, burst, selOrigin, gesture, last,
      tText, tOffset, tResult, layoutShift, startWord, listeners, chapterIndex, prevSel,
      glossRequest, askedText, selChapter, gloss, loading, error, glossCache, inFlight,
      fetchCount, settled, fetched, latest, bookData, scrollY, positions, frames, ticking,
      savedOn, scrolledAt, restored>>

resolverVars ==
    <<hook, caretApis, now, selection, nativeSel, selChangeQueued, selTimers, selTimeout,
      touchStart, pendingTap, lastTapTime, lastNotify, burst, selOrigin, gesture, last>>

\* the hook as mounted: useState(null), let selTimeout, touchStart = null, lastTapTime = 0
InitResolver(h, apis) ==
    /\ hook = h
    /\ caretApis = apis
    /\ now = StartTime
    /\ selection = NULL
    /\ nativeSel = NULL
    /\ selChangeQueued = FALSE
    /\ selTimers = {}
    /\ selTimeout = -1
    /\ touchStart = NULL
    /\ pendingTap = NULL
    /\ lastTapTime = 0
    /\ lastNotify = 0
    /\ burst = 0
    /\ selOrigin = "none"
    /\ gesture = NoGesture
    /\ last = "none"

\* The event loop runs one task at a time, in the order the tasks were queued: the
\* selectionchange event a change of the native selection queues is dispatched before
\* any later input event, and a timer runs when it is due.
Idle == ~selChangeQueued

\* Between the end of a touch and the click the platform synthesizes for it the user
\* makes no other gesture: gesture.phase = "up" admits the click, timers and time only.

(***************************************************************************)
(* Word-tap mode                                                           *)
(***************************************************************************)
\* NoResolution that dismisses the live result and the native highlight
NoResolutionClears ==
    /\ last' = "none"
    /\ selection' = NULL
    /\ nativeSel' = NULL
    /\ UNCHANGED <<selOrigin, selChangeQueued>>

NoResolution ==
    /\ last' = "none"
    /\ UNCHANGED <<selection, nativeSel, selOrigin, selChangeQueued>>

\* getWordAtPoint, extractSentence, removeAllRanges/addRange, setSelection
ResolveWord(node, offset) ==
    LET result == WordResult(NodeText(node), ParagraphTextOf(node), offset)
    IN IF result = NULL THEN NoResolution
       ELSE /\ selection' = [text |-> result.text, sentence |-> result.sentence, mode |-> "word"]
            /\ nativeSel' = [node |-> node, start |-> result.start, end |-> result.end,
                             startIsText |-> TRUE]
            /\ selOrigin' = "tap"
            /\ selChangeQueued' = TRUE
            /\ last' = "word"

selectWordAt(x, y) ==
    LET caret == getCaretAt(x, y)
    IN IF caret = NULL THEN NoResolution
       ELSE IF ~NodeInside(caret.node) THEN NoResolution
       ELSE ResolveWord(caret.node, caret.offset)

\* "pending" revision
applyWordSelection(node, offset) ==
    IF ~NodeInside(node) THEN NoResolution ELSE ResolveWord(node, offset)

\* DedupBlocks with no window at all
DedupBlocksNever(nowT, lastT) == FALSE

\* now - lastTapTime < 400: the tap is a duplicate
DedupBlocks(nowT, lastT) == nowT - lastT < DedupMs

\* ActiveMultiSelection that sees no selection
ActiveMultiSelectionNever(sel) == FALSE

\* sel && !sel.isCollapsed && sel.toString().trim().length > 1
ActiveMultiSelection(sel) == sel # NULL /\ Len(Trim(SelText(sel))) > 1

\* dt < 500 && dx < 10 && dy < 10
IsQuickTap(dt, dx, dy) == dt < TapMaxMs /\ dx < TapMaxMove /\ dy < TapMaxMove

fireTap(x, y) ==
    IF DedupBlocks(now, lastTapTime)
    THEN /\ NoResolution
         /\ UNCHANGED lastTapTime
    ELSE /\ lastTapTime' = now
         /\ IF ActiveMultiSelection(nativeSel) THEN NoResolution ELSE selectWordAt(x, y)

(***************************************************************************)
(* Touch and click handlers, "coords" revision (hooks/useTextSelection.ts) *)
(***************************************************************************)
\* history: a gesture starts with one contact; more contacts make it a multi-touch
GestureStart(p, touches) ==
    IF touches = 1
    THEN [NoGesture EXCEPT !.phase = "down", !.t0 = now, !.x0 = p.x, !.y0 = p.y]
    ELSE [NoGesture EXCEPT !.phase = "multi"]

\* history: the touch ends at displacement m; emitted tells whether the handler resolved
\* a word.  The click the platform synthesizes lands where the touch started.
GestureEnd(m, emitted) ==
    IF gesture.phase = "down"
    THEN [gesture EXCEPT !.phase = "up",
                         !.slow = (now - gesture.t0 >= 500 \/ Abs(m.dx) >= 10 \/ Abs(m.dy) >= 10),
                         !.endTime = now,
                         !.x = gesture.x0,
                         !.y = gesture.y0,
                         !.t0 = 0, !.x0 = 0, !.y0 = 0,
                         !.touchWord = emitted]
    ELSE NoGesture

\* history: the platform delivers the click of the touch that just ended
GestureClick(emitted) ==
    [gesture EXCEPT !.phase = "clicked", !.clickWord = emitted,
                    !.clickDelay = now - gesture.endTime,
                    !.endTime = 0, !.x = 0, !.y = 0]

onTouchStart(p, touches) ==
    /\ Idle
    /\ gesture.phase # "up"
    /\ hook = "coords"
    /\ touches = 1 => gesture.phase \notin {"down", "multi"}
    /\ touchStart' = IF touches # 1 THEN NULL ELSE [x |-> p.x, y |-> p.y, time |-> now]
    /\ gesture' = GestureStart(p, touches)
    /\ last' = "none"
    /\ UNCHANGED <<hook, caretApis, now, selection, nativeSel, selChangeQueued, selTimers,
                   selTimeout, pendingTap, lastTapTime, lastNotify, burst, selOrigin>>

\* onTouchEnd without the final touchStart = null
onTouchEndKeepsSlot(m, changedTouches) ==
    /\ Idle
    /\ hook = "coords"
    /\ gesture.phase \in {"down", "multi"}
    /\ changedTouches # 1 => gesture.phase = "multi"
    /\ IF touchStart = NULL \/ changedTouches # 1
       THEN NoResolution /\ UNCHANGED lastTapTime
       ELSE LET dx == Abs((gesture.x0 + m.dx) - touchStart.x)
                dy == Abs((gesture.y0 + m.dy) - touchStart.y)
                dt == now - touchStart.time
            IN IF IsQuickTap(dt, dx, dy)
               THEN fireTap(touchStart.x, touchStart.y)
               ELSE NoResolution /\ UNCHANGED lastTapTime
    /\ touchStart' = IF touchStart = NULL \/ changedTouches # 1 THEN NULL ELSE touchStart
    /\ gesture' = GestureEnd(m, last' = "word")
    /\ UNCHANGED <<hook, caretApis, now, selTimers, selTimeout, pendingTap, lastNotify, burst>>

onTouchEnd(m, changedTouches) ==
    /\ Idle
    /\ hook = "coords"
    /\ gesture.phase \in {"down", "multi"}
    /\ changedTouches # 1 => gesture.phase = "multi"
    /\ IF touchStart = NULL \/ changedTouches # 1
       THEN NoResolution /\ UNCHANGED lastTapTime
       ELSE LET dx == Abs((gesture.x0 + m.dx) - touchStart.x)
                dy == Abs((gesture.y0 + m.dy) - touchStart.y)
                dt == now - touchStart.time
            IN IF IsQuickTap(dt, dx, dy)
               THEN fireTap(touchStart.x, touchStart.y)
               ELSE NoResolution /\ UNCHANGED lastTapTime
    /\ touchStart' = NULL
    /\ gesture' = GestureEnd(m, last' = "word")
    /\ UNCHANGED <<hook, caretApis, now, selTimers, selTimeout, pendingTap, lastNotify, burst>>

\* a mouse click at p
onClick(p) ==
    /\ Idle
    /\ hook = "coords"
    /\ gesture.phase \in {"none", "clicked"}
    /\ fireTap(p.x, p.y)
    /\ UNCHANGED <<hook, caretApis, now, selTimers, selTimeout, touchStart, pendingTap,
                   lastNotify, burst, gesture>>

\* the click the platform synthesizes for the touch that just ended
onClickAfterTouch ==
    /\ Idle
    /\ hook = "coords"
    /\ gesture.phase = "up"
    /\ fireTap(gesture.x, gesture.y)
    /\ gesture' = GestureClick(last' = "word")
    /\ UNCHANGED <<hook, caretApis, now, selTimers, selTimeout, touchStart, pendingTap,
                   lastNotify, burst>>

(***************************************************************************)
(* Touch and click handlers, "pending" revision (unnamed/part_003)         *)
(***************************************************************************)
\* now - lastTapTime > 400
TouchDedupPasses(nowT, lastT) == nowT - lastT > DedupMs

\* !sel || sel.isCollapsed || sel.toString().trim().length <= 1
SelectionAllowsTap(sel) == sel = NULL \/ Len(Trim(SelText(sel))) <= 1

onTouchStartPending(p, touches) ==
    /\ Idle
    /\ gesture.phase # "up"
    /\ hook = "pending"
    /\ touches = 1 => gesture.phase \notin {"down", "multi"}
    /\ pendingTap' =
          IF touches # 1 THEN NULL
          ELSE LET caret == getCaretAt(p.x, p.y)
               IN IF caret # NULL
                  THEN [node |-> caret.node, offset |-> caret.offset,
                        x |-> p.x, y |-> p.y, time |-> now]
                  ELSE NULL
    /\ gesture' = GestureStart(p, touches)
    /\ last' = "none"
    /\ UNCHANGED <<hook, caretApis, now, selection, nativeSel, selChangeQueued, selTimers,
                   selTimeout, touchStart, lastTapTime, lastNotify, burst, selOrigin>>

onTouchEndPending(m, changedTouches) ==
    /\ Idle
    /\ hook = "pending"
    /\ gesture.phase \in {"down", "multi"}
    /\ changedTouches # 1 => gesture.phase = "multi"
    /\ IF pendingTap = NULL \/ changedTouches # 1
       THEN NoResolution /\ UNCHANGED lastTapTime
       ELSE LET dx == Abs((gesture.x0 + m.dx) - pendingTap.x)
                dy == Abs((gesture.y0 + m.dy) - pendingTap.y)
                dt == now - pendingTap.time
            IN IF IsQuickTap(dt, dx, dy) /\ TouchDedupPasses(now, lastTapTime)
               THEN /\ lastTapTime' = now
                    /\ IF SelectionAllowsTap(nativeSel)
                       THEN applyWordSelection(pendingTap.node, pendingTap.offset)
                       ELSE NoResolution
               ELSE NoResolution /\ UNCHANGED lastTapTime
    /\ pendingTap' = NULL
    /\ gesture' = GestureEnd(m, last' = "word")
    /\ UNCHANGED <<hook, caretApis, now, selTimers, selTimeout, touchStart, lastNotify, burst>>

clickPending(x, y) ==
    IF DedupBlocks(now, lastTapTime)
    THEN NoResolution /\ UNCHANGED lastTapTime
    ELSE /\ lastTapTime' = now
         /\ IF ActiveMultiSelection(nativeSel) THEN NoResolution
            ELSE LET caret == getCaretAt(x, y)
                 IN IF caret # NULL
                    THEN applyWordSelection(caret.node, caret.offset)
                    ELSE NoResolution

onClickPending(p) ==
    /\ Idle
    /\ hook = "pending"
    /\ gesture.phase \in {"none", "clicked"}
    /\ clickPending(p.x, p.y)
    /\ UNCHANGED <<hook, caretApis, now, selTimers, selTimeout, touchStart, pendingTap,
                   lastNotify, burst, gesture>>

onClickAfterTouchPending ==
    /\ Idle
    /\ hook = "pending"
    /\ gesture.phase = "up"
    /\ clickPending(gesture.x, gesture.y)
    /\ gesture' = GestureClick(last' = "word")
    /\ UNCHANGED <<hook, caretApis, now, selTimers, selTimeout, touchStart, pendingTap,
                   lastNotify, burst>>

(***************************************************************************)
(* Phrase mode: native selection, selectionchange, the debounce timer      *)
(***************************************************************************)
\* the user selects range r natively
UserSelect(r) ==
    /\ Idle
    /\ gesture.phase # "up"
    /\ r # nativeSel
    /\ nativeSel' = r
    /\ selOrigin' = "user"
    /\ selChangeQueued' = TRUE
    /\ last' = "none"
    /\ UNCHANGED <<hook, caretApis, now, selection, selTimers, selTimeout, touchStart,
                   pendingTap, lastTapTime, lastNotify, burst, gesture>>

\* the user collapses the native selection
UserCollapse ==
    /\ Idle
    /\ gesture.phase # "up"
    /\ nativeSel # NULL
    /\ nativeSel' = NULL
    /\ selOrigin' = "user"
    /\ selChangeQueued' = TRUE
    /\ last' = "none"
    /\ UNCHANGED <<hook, caretApis, now, selection, selTimers, selTimeout, touchStart,
                   pendingTap, lastTapTime, lastNotify, burst, gesture>>

\* ClearTimeout that leaves the timer pending
ClearTimeoutKeeps(timers, handle) == timers

\* clearTimeout(handle)
ClearTimeout(timers, handle) == timers \ {handle}

\* setTimeout(handleSelectionChange, 300): the deadline of the new timer
Deadline(nowT) == nowT + DebounceMs

onSelectionChange ==
    /\ selChangeQueued
    /\ selChangeQueued' = FALSE
    /\ selTimers' = ClearTimeout(selTimers, selTimeout) \cup {Deadline(now)}
    /\ selTimeout' = Deadline(now)
    /\ lastNotify' = now
    /\ burst' = IF selTimers = {} THEN 1 ELSE 2
    /\ last' = "none"
    /\ UNCHANGED <<hook, caretApis, now, selection, nativeSel, touchStart, pendingTap,
                   lastTapTime, selOrigin, gesture>>

\* the sentence of a phrase whose range is sel
PhraseSentence(sel) ==
    IF sel.startIsText
    THEN extractSentence(NodeText(sel.node), ParagraphTextOf(sel.node), sel.start)
    ELSE Slice(NodeText(sel.node), 0, SentenceCap)

\* PhraseResult with the punctuation stripped from the text as in word-tap mode
PhraseResultStripped(sel) ==
    IF sel = NULL THEN NULL
    ELSE IF ~NodeInside(sel.node) THEN NULL
    ELSE LET text == StripPunctuation(Trim(SelText(sel)))
         IN IF Len(text) < 2 THEN NULL
            ELSE [text |-> text, sentence |-> PhraseSentence(sel), mode |-> "phrase"]

\* what handleSelectionChange sets the SelectionResult to, NULL when it returns early
PhraseResult(sel) ==
    IF sel = NULL THEN NULL
    ELSE IF ~NodeInside(sel.node) THEN NULL
    ELSE LET text == Trim(SelText(sel))
         IN IF Len(text) < 2 THEN NULL
            ELSE [text |-> text, sentence |-> PhraseSentence(sel), mode |-> "phrase"]

\* a debounce timer expires
handleSelectionChange ==
    \E d \in selTimers :
        /\ Idle
        /\ d <= now
        /\ selTimers' = selTimers \ {d}
        /\ IF PhraseResult(nativeSel) = NULL
           THEN /\ last' = "none"
                /\ UNCHANGED selection
           ELSE /\ selection' = PhraseResult(nativeSel)
                /\ last' = "phrase"
        /\ selTimeout' = IF d = selTimeout THEN -1 ELSE selTimeout
        /\ lastNotify' = IF d = selTimeout THEN 0 ELSE lastNotify
        /\ UNCHANGED <<hook, caretApis, now, nativeSel, selChangeQueued, burst,
                       touchStart, pendingTap, lastTapTime, selOrigin, gesture>>

\* clearSelection without the removeAllRanges call
clearSelectionKeepsRanges ==
    /\ Idle
    /\ gesture.phase \in {"none", "clicked"}
    /\ selection' = NULL
    /\ last' = "none"
    /\ UNCHANGED <<hook, caretApis, now, nativeSel, selChangeQueued, selOrigin, selTimers,
                   selTimeout, touchStart, pendingTap, lastTapTime, lastNotify, burst,
                   gesture>>

clearSelection ==
    /\ Idle
    /\ gesture.phase \in {"none", "clicked"}
    /\ selection' = NULL
    /\ nativeSel' = NULL
    /\ selChangeQueued' = (selChangeQueued \/ nativeSel # NULL)
    /\ selOrigin' = IF nativeSel # NULL THEN "none" ELSE selOrigin
    /\ last' = "none"
    /\ UNCHANGED <<hook, caretApis, now, selTimers, selTimeout, touchStart, pendingTap,
                   lastTapTime, lastNotify, burst, gesture>>

\* history: a gesture is over once its click was handled, or when no click came for it
GestureIsOver(t) ==
    \/ gesture.phase = "clicked"
    \/ gesture.phase = "up" /\ t - gesture.endTime > ClickWait

\* time passes
Advance ==
    /\ Idle
    /\ \A d \in selTimers : d > now
    /\ now + Tick <= MaxTime
    /\ now' = now + Tick
    /\ last' = "none"
    /\ gesture' = IF GestureIsOver(now + Tick) THEN NoGesture ELSE gesture
    /\ burst' = IF selTimers = {} THEN 0 ELSE burst
    /\ UNCHANGED <<hook, caretApis, selection, nativeSel, selChangeQueued, selTimers,
                   selTimeout, touchStart, pendingTap, lastTapTime, lastNotify, selOrigin>>

\* the runtimes of the model: a revision of the hook and the lookups the browser has
Runtimes ==
    { [hook |-> "coords", apis |-> {"caretRangeAtPoint"}],
      [hook |-> "pending", apis |-> {"caretPositionFromPoint"}],
      [hook |-> "coords", apis |-> {}],
      [hook |-> "pending", apis |-> {}] }

(***************************************************************************)
(* SpecText: the text algorithms on every text up to MaxLen characters     *)
(* over Alphabet, and on the example paragraphs, at every caret offset.    *)
(* The paragraph is rendered as one text node (BookContent), so the node's *)
(* text is the paragraph's flat text.                                      *)
(***************************************************************************)
MaxLen == 5

Alphabet == {"a", " ", ".", "?", InvQ}

ParaCorrio ==
    <<Eacute, "l", " ", "c", "o", "r", "r", "i", oacute, ".", " ", "E", "l", "l", "a", " ",
      "e", "s", "p", "e", "r", oacute, ".", " ", InvQ, "Q", "u", eacute, " ", "p", "a", "s",
      oacute, "?">>

ParaHola ==
    <<InvE, "H", "o", "l", "a", "!", " ", InvQ, "C", oacute, "m", "o", " ", "e", "s", "t",
      aacute, "s", "?">>

\* a line of dialogue opened by an en dash, with a quoted word
ParaGuion == <<EnDash, " ", LGuil, "h", "o", "l", "a", RGuil, ",">>

Texts == UNION {[1..n -> Alphabet] : n \in 0..MaxLen} \cup {ParaCorrio, ParaHola, ParaGuion}

UNSET == [unset |-> TRUE]

textVars == <<tText, tOffset, tResult>>

\* the state of the page around the hook
\* the events the mount effect registers a listener for
AllListeners == {"selectionchange", "touchstart", "touchend", "click"}

\* the state of the page that only the mounting and the host component write
\* chapters of the book
NumChapters == 3

\* bookMeta
BookMeta == [id |-> "quijote", title |-> "Don Quijote", author |-> "Cervantes"]

\* the state of useGloss and of the gloss requests
glossVars ==
    <<gloss, loading, error, glossCache, inFlight, fetchCount, settled, fetched, latest>>

\* the state of useReadingPosition and of the loaded book
readVars ==
    <<bookData, scrollY, positions, frames, ticking, savedOn, scrolledAt, restored>>

pageVars ==
    <<listeners, chapterIndex, prevSel, glossRequest, askedText, selChapter, glossVars,
      readVars>>

hostVars == <<layoutShift, startWord, pageVars>>

\* useGloss as mounted: nothing shown, nothing stored, nothing in flight
InitGloss ==
    /\ gloss = NULL
    /\ loading = FALSE
    /\ error = NULL
    /\ glossCache = {}
    /\ inFlight = {}
    /\ fetchCount = 0
    /\ settled = NULL
    /\ fetched = {}
    /\ latest = NULL

\* the window at the top, no position stored, nothing scheduled
InitPosition ==
    /\ scrollY = 0
    /\ positions = {}
    /\ frames = <<>>
    /\ ticking = {}
    /\ savedOn = -1
    /\ scrolledAt = [i \in 0..(NumChapters - 1) |-> -1]
    /\ restored = NULL

\* a book without a preface, loaded, at the top of its first chapter, no position stored
InitRead ==
    /\ bookData = [loaded |-> TRUE, isPreface |-> [i \in 0..(NumChapters - 1) |-> FALSE]]
    /\ InitPosition

\* clearGloss()
clearGloss ==
    /\ gloss' = NULL
    /\ error' = NULL
    /\ loading' = FALSE
    /\ settled' = NULL
    /\ latest' = NULL
    /\ UNCHANGED <<glossCache, inFlight, fetchCount, fetched>>

InitPage ==
    /\ layoutShift = 0
    /\ startWord = NULL
    /\ listeners = AllListeners
    /\ chapterIndex = 0
    /\ prevSel = <<>>
    /\ glossRequest = NULL
    /\ askedText = <<>>
    /\ selChapter = 0
    /\ InitGloss

InitHost == InitPage /\ InitRead

\* what the actions of the resolver and of the text algorithms leave alone
frameVars == <<textVars, hostVars>>

InitText ==
    /\ InitResolver("coords", {"caretRangeAtPoint"})
    /\ tText \in Texts
    /\ tOffset \in 0..Len(tText)
    /\ tResult = UNSET
    /\ InitHost

\* a tap whose caret is at tOffset of the paragraph's text node
TapResolve ==
    /\ tResult = UNSET
    /\ tResult' = [word |-> WordResult(tText, tText, tOffset),
                   sentence |-> extractSentence(tText, tText, tOffset)]
    /\ UNCHANGED <<tText, tOffset>>
    /\ UNCHANGED resolverVars
    /\ UNCHANGED hostVars

NextText == TapResolve

SpecText == InitText /\ [][NextText]_vars

Init ==
    /\ \E r \in Runtimes : InitResolver(r.hook, r.apis)
    /\ tText = <<>>
    /\ tOffset = 0
    /\ tResult = UNSET
    /\ InitHost

Next ==
    \/ \E p \in TapPoints, touches \in {1, 2} : onTouchStart(p, touches) /\ UNCHANGED frameVars
    \/ \E m \in Moves, changed \in {1, 2} : onTouchEnd(m, changed) /\ UNCHANGED frameVars
    \/ \E p \in TapPoints : onClick(p) /\ UNCHANGED frameVars
    \/ onClickAfterTouch /\ UNCHANGED frameVars
    \/ \E p \in TapPoints, touches \in {1, 2} : onTouchStartPending(p, touches) /\ UNCHANGED frameVars
    \/ \E m \in Moves, changed \in {1, 2} : onTouchEndPending(m, changed) /\ UNCHANGED frameVars
    \/ \E p \in TapPoints : onClickPending(p) /\ UNCHANGED frameVars
    \/ onClickAfterTouchPending /\ UNCHANGED frameVars
    \/ \E r \in DragRanges : UserSelect(r) /\ UNCHANGED frameVars
    \/ UserCollapse /\ UNCHANGED frameVars
    \/ onSelectionChange /\ UNCHANGED frameVars
    \/ handleSelectionChange /\ UNCHANGED frameVars
    \/ clearSelection /\ UNCHANGED frameVars
    \/ Advance /\ UNCHANGED frameVars

Spec == Init /\ [][Next]_vars

(***************************************************************************)
(* Properties of the text algorithms (SpecText)                            *)
(***************************************************************************)
Contains(s, t) == IndexOf(s, t) # -1

Resolved == tResult # UNSET

WordResolved == Resolved /\ tResult.word # NULL

\* C1: in word-tap mode the sentence of the result contains its text as a substring,
\* for every paragraph text and every tap offset that resolves a word.
C1_SentenceContainsText ==
    WordResolved => Contains(tResult.sentence, tResult.word.text)

\* the start of the sentence as C3 states it: just after the last ". ", "! " or "? "
\* before the offset, or at the last opening mark before it, whichever is later; 0 when
\* none of these occurs before the offset
StatedSentenceStart(text, offset) ==
    LET before == Slice(text, 0, offset)
        closers == {LastIndexOf(before, <<c, " ">>) : c \in Terminators} \ {-1}
        openers == {LastIndexOf(before, <<c>>) : c \in {InvQ, InvE}} \ {-1}
        starts == {i + 2 : i \in closers} \cup openers
    IN IF starts = {} THEN 0 ELSE SetMax(starts)

\* the end of the sentence as C9 states it: the first terminator at or after the offset
\* that whitespace or the end of the text follows, or the end of the paragraph
StatedSentenceEnd(text, offset) ==
    LET ends == {i \in offset..(Len(text) - 1) :
                    /\ text[i + 1] \in Terminators
                    /\ (i + 1 = Len(text) \/ IsSpace(text[i + 2]))}
    IN IF ends = {} THEN Len(text) ELSE SetMin(ends) + 1

\* C3: the sentence starts just after the last ". ", "! " or "? " before the offset, or at
\* the last opening mark before it, whichever is later, and at index 0 when there is none,
\* so a sentence that opens the paragraph keeps the paragraph's first character.
C3_SentenceStart ==
    Resolved =>
        tResult.sentence =
            Trim(Slice(tText, StatedSentenceStart(tText, tOffset),
                       StatedSentenceEnd(tText, tOffset)))

\* C9: the extracted sentence is the single sentence holding the offset: it ends with the
\* first terminator at or after the offset that whitespace or the end of the text follows
\* (or at the paragraph's end), it reaches back to the offset or before it, and no
\* terminator followed by whitespace lies inside it.
C9_SingleSentence ==
    Resolved =>
        /\ \E from \in 0..tOffset :
              tResult.sentence = Trim(Slice(tText, from, StatedSentenceEnd(tText, tOffset)))
        /\ \A i \in 1..(Len(tResult.sentence) - 1) :
              ~(tResult.sentence[i] \in Terminators /\ IsSpace(tResult.sentence[i + 1]))

SentenceEsperaba == <<"E", "l", "l", "a", " ", "e", "s", "p", "e", "r", oacute, ".">>
SentenceQuePaso == <<InvQ, "Q", "u", eacute, " ", "p", "a", "s", oacute, "?">>
SentenceComoEstas == <<InvQ, "C", oacute, "m", "o", " ", "e", "s", "t", aacute, "s", "?">>

\* C10: in "Él corrió. Ella esperó. ¿Qué pasó?" a tap inside "esperó" (offsets 16..22)
\* yields the sentence "Ella esperó." and a tap inside "pasó" (offsets 29..33) yields
\* "¿Qué pasó?"; in "¡Hola! ¿Cómo estás?" a tap inside "Cómo" (offsets 8..12) yields
\* "¿Cómo estás?".
C10_ExampleSentences ==
    Resolved =>
        /\ (tText = ParaCorrio /\ tOffset \in 16..22) =>
              (tResult.word # NULL /\ tResult.sentence = SentenceEsperaba)
        /\ (tText = ParaCorrio /\ tOffset \in 29..33) =>
              (tResult.word # NULL /\ tResult.sentence = SentenceQuePaso)
        /\ (tText = ParaHola /\ tOffset \in 8..12) =>
              (tResult.word # NULL /\ tResult.sentence = SentenceComoEstas)

C10_Witness ==
    /\ WordResolved
    /\ tText = ParaHola
    /\ tOffset = 10
    /\ tResult.word.text = <<"C", oacute, "m", "o">>
    /\ tResult.sentence = SentenceComoEstas

\* the punctuation marks the stripping is stated to remove: period, comma, semicolon,
\* colon, exclamation and question marks of both orientations, straight quotation marks,
\* guillemets, em dash and en dash
StatedPunctuation ==
    {".", ",", ";", ":", "!", "?", InvQ, InvE, "\"", "'", LGuil, RGuil, EmDash, EnDash}

\* the maximal run of non-whitespace characters around the caret
TokenAt(text, offset) == Slice(text, ScanLeft(text, offset), ScanRight(text, offset))

\* C11: a tap on a token made only of the stated punctuation marks yields no
\* SelectionResult.
C11_PunctuationTokenYieldsNothing ==
    (/\ Resolved
     /\ tOffset < Len(tText)
     /\ TokenAt(tText, tOffset) # <<>>
     /\ \A i \in 1..Len(TokenAt(tText, tOffset)) :
            TokenAt(tText, tOffset)[i] \in StatedPunctuation)
        => tResult.word = NULL

\* C12: the range committed for a resolved word covers exactly the stripped word: the
\* node's text between its start and end is the result's text, the range lies inside
\* the tapped token, and no stripped mark is at either end of it.
C12_RangeCoversStrippedWord ==
    WordResolved =>
        /\ Slice(tText, tResult.word.start, tResult.word.end) = tResult.word.text
        /\ ScanLeft(tText, tOffset) <= tResult.word.start
        /\ tResult.word.end <= ScanRight(tText, tOffset)
        /\ tResult.word.text[1] \notin StripChars
        /\ tResult.word.text[Len(tResult.word.text)] \notin StripChars

\* the tap on the quoted word of ParaGuion selects the four letters only
C12_Witness ==
    /\ WordResolved
    /\ tText = ParaGuion
    /\ tOffset = 2
    /\ tResult.word.text = <<"h", "o", "l", "a">>
    /\ tResult.word.start = 3
    /\ tResult.word.end = 7

(***************************************************************************)
(* Properties of the resolver (Spec)                                       *)
(***************************************************************************)
\* C2: a live SelectionResult has a text that is not empty and is not made only of
\* whitespace and punctuation, whichever mode produced it.
C2_TextHasWordCharacter ==
    selection # NULL =>
        \E i \in 1..Len(selection.text) : selection.text[i] \notin (WhiteSpace \cup StripChars)

\* C4: a touch that lasts 500 ms or more, or moves 10 px or more on either axis, resolves
\* no word, neither in the touch-end handler nor in the click handler.
C4_SlowGestureResolvesNothing ==
    gesture.slow => (~gesture.touchWord /\ ~gesture.clickWord)

\* C5: when the touch-end of a tap resolved a word and the click of the same tap comes
\* less than 400 ms later, the click resolves nothing.
C5_ClickAfterTapDeduplicated ==
    (gesture.phase = "clicked" /\ gesture.touchWord /\ gesture.clickDelay < 400)
        => ~gesture.clickWord

C5_Witness ==
    /\ gesture.phase = "clicked"
    /\ gesture.touchWord
    /\ gesture.clickDelay = 300
    /\ ~gesture.clickWord
    /\ last = "none"
    /\ selection # NULL
    /\ selection.mode = "word"

\* a step of a touch-end or click handler
TapHandlerStep ==
    \/ \E m \in Moves, changed \in {1, 2} : onTouchEnd(m, changed)
    \/ \E p \in TapPoints : onClick(p)
    \/ onClickAfterTouch
    \/ \E m \in Moves, changed \in {1, 2} : onTouchEndPending(m, changed)
    \/ \E p \in TapPoints : onClickPending(p)
    \/ onClickAfterTouchPending

\* the native selection is not collapsed and its trimmed text has more than 1 character
MultiCharSelected == nativeSel # NULL /\ Len(Trim(SelText(nativeSel))) > 1

\* C6: a tap or click that fires while the native selection is not collapsed and its
\* trimmed text is longer than 1 character is ignored: the SelectionResult and the native
\* selection stay as they were.
C6_TapIgnoredDuringSelection ==
    [][(TapHandlerStep /\ MultiCharSelected)
          => (selection' = selection /\ nativeSel' = nativeSel /\ last' = "none")]_vars

\* a tap passed the dedup at this instant, on a selection the user had made earlier
C6_Witness ==
    /\ lastTapTime = now
    /\ MultiCharSelected
    /\ selOrigin = "user"
    /\ selTimers # {}
    /\ lastNotify < now
    /\ selection = NULL
    /\ last = "none"

\* C7: phrase resolution runs only when 300 ms have passed with no further
\* selection-change notification; every notification replaces the pending timer, so at
\* most one timer is pending and a burst yields one resolution, evaluated on the native
\* selection that exists when the timer expires.
C7_DebounceQuiescence ==
    /\ [](Cardinality(selTimers) <= 1)
    /\ [][handleSelectionChange
             => /\ now - lastNotify >= 300
                /\ selTimers' = {}
                /\ last' = "phrase" => selection'.text = Trim(SelText(nativeSel))]_vars

\* a burst of two notifications was resolved once, on the user's selection
C7_Witness ==
    /\ last = "phrase"
    /\ burst = 2
    /\ selTimers = {}
    /\ selOrigin = "user"
    /\ selection.mode = "phrase"
    /\ selection.text = Trim(SelText(nativeSel))

\* C8: a word tap that resolved, and set the native selection to its word, is not
\* followed by a phrase-mode resolution of that selection.
C8_ModesExclusive ==
    ~(selection # NULL /\ selection.mode = "phrase" /\ selOrigin = "tap")

\* C13: right after a successful resolution, in word-tap mode and in phrase mode alike,
\* the native selection is a range whose text is exactly the emitted result's text.
C13_NativeSelectionIsResultText ==
    last \in {"word", "phrase"} =>
        /\ nativeSel # NULL
        /\ SelText(nativeSel) = selection.text

\* the native selection is not collapsed, lies inside the surface and has 2 characters
\* or more once trimmed
PhraseSelected ==
    /\ nativeSel # NULL
    /\ nativeSel.start < nativeSel.end
    /\ NodeInside(nativeSel.node)
    /\ Len(Trim(SelText(nativeSel))) >= 2

\* removal of the leading and trailing whitespace only
OuterTrimmed(s) ==
    IF \A i \in 1..Len(s) : IsSpace(s[i]) THEN <<>>
    ELSE SubSeq(s, SetMin({i \in 1..Len(s) : ~IsSpace(s[i])}),
                   SetMax({i \in 1..Len(s) : ~IsSpace(s[i])}))

\* C14: when the debounce timer expires on a non-collapsed native selection inside the
\* surface whose trimmed text has 2 characters or more, phrase mode emits a result whose
\* text is the selected text without its leading and trailing whitespace: internal
\* spaces are kept and no punctuation is stripped.
C14_PhraseTextIsTrimmedSelection ==
    [][(handleSelectionChange /\ PhraseSelected)
          => /\ last' = "phrase"
             /\ selection'.mode = "phrase"
             /\ selection'.text = OuterTrimmed(SelText(nativeSel))]_vars

\* the drag over " (inv?)y tu" was emitted with its inner space and its opening mark
C14_Witness ==
    /\ last = "phrase"
    /\ selOrigin = "user"
    /\ nativeSel = [node |-> "p0", start |-> 9, end |-> 15, startIsText |-> TRUE]
    /\ selection.mode = "phrase"
    /\ selection.text = <<InvQ, "y", " ", "t", uacute>>

\* the caret of a tap resolves no word: no API yields a text position, the text node is
\* outside the surface, or the token under it is empty once stripped
CaretFails(caret) ==
    \/ caret = NULL
    \/ ~NodeInside(caret.node)
    \/ StripPunctuation(TokenAt(NodeText(caret.node), caret.offset)) = <<>>

\* a step of a touch-end or click handler whose caret resolves no word
TapFailureStep ==
    \/ \E p \in TapPoints :
          /\ onClick(p) \/ onClickPending(p)
          /\ CaretFails(getCaretAt(p.x, p.y))
    \/ /\ onClickAfterTouch \/ onClickAfterTouchPending
       /\ CaretFails(getCaretAt(gesture.x, gesture.y))
    \/ /\ \E m \in Moves, changed \in {1, 2} : onTouchEnd(m, changed)
       /\ touchStart # NULL
       /\ CaretFails(getCaretAt(touchStart.x, touchStart.y))
    \/ /\ \E m \in Moves, changed \in {1, 2} : onTouchEndPending(m, changed)
       /\ \/ pendingTap = NULL
          \/ CaretFails([node |-> pendingTap.node, offset |-> pendingTap.offset])

\* the debounce timer expires on a selection outside the surface or shorter than 2
\* characters once trimmed
PhraseFailureStep ==
    /\ handleSelectionChange
    /\ nativeSel # NULL
    /\ \/ ~NodeInside(nativeSel.node)
       \/ Len(OuterTrimmed(SelText(nativeSel))) < 2

\* C15: each failure condition is a silent no-op: a tap whose caret is outside the
\* surface, on a token empty after stripping, or with no caret API answering, and a
\* selection-change for a selection outside the surface or shorter than 2 characters
\* once trimmed, leave the live SelectionResult and the native selection as they were.
C15_FailuresAreNoOps ==
    [][(TapFailureStep \/ PhraseFailureStep)
          => (selection' = selection /\ nativeSel' = nativeSel /\ last' = "none")]_vars

\* the timer of a burst expired on a selection of the title, outside the surface, and
\* the live word result was kept
C15_Witness ==
    /\ last = "none"
    /\ selTimers = {}
    /\ burst = 2
    /\ nativeSel # NULL
    /\ nativeSel.node = "title"
    /\ selection # NULL
    /\ selection.mode = "word"

\* C17: after clear() the SelectionResult is null and the native selection has no range,
\* and from there the result stays null until a user gesture resolves: the only step that
\* sets a result while the native selection is empty is a word tap, never the expiry of a
\* debounce timer or a selection-change notification.
C17_ClearStaysCleared ==
    [][/\ clearSelection => (selection' = NULL /\ nativeSel' = NULL)
       /\ (selection = NULL /\ nativeSel = NULL /\ selection' # NULL)
             => (last' = "word" /\ lastTapTime' = now)]_vars

\* clear() dismissed a native selection while a timer was pending; the timer, restarted
\* by the notification of the removal, expired and produced nothing
C17_Witness ==
    /\ selOrigin = "none"
    /\ selection = NULL
    /\ nativeSel = NULL
    /\ burst = 2
    /\ selTimers = {}
    /\ lastNotify = 0
    /\ last = "none"

(***************************************************************************)
(* SpecTouch: touch gestures on a page whose layout can move between the   *)
(* start and the end of a touch (content that loads or reflows, a scroll   *)
(* that is still running).                                                 *)
(***************************************************************************)
\* how far the text can move, in px
MaxShift == 100

\* the word the point-to-text lookup and getWordAtPoint give at point p right now
WordUnder(p) ==
    LET caret == getCaretAt(p.x, p.y)
    IN IF CaretFails(caret) THEN NULL
       ELSE getWordAtPoint(NodeText(caret.node), caret.offset)

TouchStartStep ==
    \E p \in TapPoints, touches \in {1, 2} :
        /\ onTouchStart(p, touches) \/ onTouchStartPending(p, touches)
        /\ startWord' = IF touches = 1 THEN WordUnder(p) ELSE NULL
        /\ UNCHANGED <<layoutShift, pageVars, textVars>>

TouchEndStep ==
    \E m \in Moves, changed \in {1, 2} :
        /\ onTouchEnd(m, changed) \/ onTouchEndPending(m, changed)
        /\ UNCHANGED frameVars

ClickAfterTouchStep ==
    /\ onClickAfterTouch \/ onClickAfterTouchPending
    /\ UNCHANGED frameVars

\* the rendered text moves under the viewport
LayoutShift ==
    /\ Idle
    /\ layoutShift' \in {0, MaxShift} \ {layoutShift}
    /\ last' = "none"
    /\ UNCHANGED <<hook, caretApis, now, selection, nativeSel, selChangeQueued, selTimers,
                   selTimeout, touchStart, pendingTap, lastTapTime, lastNotify, burst,
                   selOrigin, gesture, startWord, pageVars, textVars>>

NextTouch ==
    \/ TouchStartStep
    \/ TouchEndStep
    \/ ClickAfterTouchStep
    \/ LayoutShift
    \/ onSelectionChange /\ UNCHANGED frameVars
    \/ handleSelectionChange /\ UNCHANGED frameVars
    \/ Advance /\ UNCHANGED frameVars

SpecTouch == Init /\ [][NextTouch]_vars

\* C16: the caret of a touch is resolved when the touch starts and cached; touch-end does
\* no new point-to-text lookup and commits the cached position only if the release is a
\* tap, so the word a touch resolves is the word that was under the finger when the touch
\* started.
C16_WordResolvedAtTouchStart ==
    /\ (gesture.phase = "up" /\ gesture.slow) => ~gesture.touchWord
    /\ (gesture.phase = "up" /\ gesture.touchWord) =>
          /\ startWord # NULL
          /\ selection.text = startWord.word
          /\ nativeSel.start = startWord.start
          /\ nativeSel.end = startWord.end

(***************************************************************************)
(* SpecMount: the hook from mount to unmount.  An event reaches a handler  *)
(* only while its listener is registered; a timer runs its callback unless *)
(* it was cancelled.                                                       *)
(***************************************************************************)
\* the cleanup of the mount effect without the clearTimeout call
UnmountKeepsTimer ==
    /\ listeners # {}
    /\ listeners' = {}
    /\ last' = "none"
    /\ UNCHANGED <<hook, caretApis, now, selection, nativeSel, selChangeQueued, selTimers,
                   selTimeout, touchStart, pendingTap, lastTapTime, lastNotify, burst,
                   selOrigin, gesture, layoutShift, startWord, textVars, chapterIndex,
                   prevSel, glossRequest, askedText, selChapter, glossVars, readVars>>

\* the cleanup of the mount effect: the four listeners are removed, the timer is cancelled
Unmount ==
    /\ listeners # {}
    /\ listeners' = listeners \ {"selectionchange", "touchstart", "touchend", "click"}
    /\ selTimers' = ClearTimeout(selTimers, selTimeout)
    /\ last' = "none"
    /\ UNCHANGED <<hook, caretApis, now, selection, nativeSel, selChangeQueued, selTimeout,
                   touchStart, pendingTap, lastTapTime, lastNotify, burst, selOrigin,
                   gesture, layoutShift, startWord, textVars, chapterIndex, prevSel,
                   glossRequest, askedText, selChapter, glossVars, readVars>>

\* a selectionchange event is dispatched while the document has no listener for it
SelectionChangeUnheard ==
    /\ selChangeQueued
    /\ "selectionchange" \notin listeners
    /\ selChangeQueued' = FALSE
    /\ last' = "none"
    /\ UNCHANGED <<hook, caretApis, now, selection, nativeSel, selTimers, selTimeout,
                   touchStart, pendingTap, lastTapTime, lastNotify, burst, selOrigin,
                   gesture, frameVars>>

NextMount ==
    \/ /\ "touchstart" \in listeners
       /\ \E p \in TapPoints, touches \in {1, 2} :
             onTouchStart(p, touches) \/ onTouchStartPending(p, touches)
       /\ UNCHANGED frameVars
    \/ /\ "touchend" \in listeners
       /\ \E m \in Moves, changed \in {1, 2} :
             onTouchEnd(m, changed) \/ onTouchEndPending(m, changed)
       /\ UNCHANGED frameVars
    \/ /\ "click" \in listeners
       /\ \/ \E p \in TapPoints : onClick(p) \/ onClickPending(p)
          \/ onClickAfterTouch
          \/ onClickAfterTouchPending
       /\ UNCHANGED frameVars
    \/ /\ "selectionchange" \in listeners
       /\ onSelectionChange
       /\ UNCHANGED frameVars
    \/ SelectionChangeUnheard
    \/ handleSelectionChange /\ UNCHANGED frameVars
    \/ \E r \in DragRanges : UserSelect(r) /\ UNCHANGED frameVars
    \/ UserCollapse /\ UNCHANGED frameVars
    \/ Advance /\ UNCHANGED frameVars
    \/ Unmount

SpecMount == Init /\ [][NextMount]_vars

\* C18: the unmount removes the four listeners and cancels the pending debounce timer,
\* and from then on nothing changes the SelectionResult, and the native selection
\* changes only at the user's hand: no touch, click or selection-change event and no
\* timer scheduled before the unmount acts.
C18_UnmountSilencesHook ==
    /\ [](listeners = {} => selTimers = {})
    /\ [][Unmount => listeners' = {}]_vars
    /\ [][listeners = {}
             => /\ selection' = selection
                /\ nativeSel' # nativeSel => selOrigin' = "user"
                /\ last' = "none"]_vars

\* the hook was unmounted with a timer pending on a phrase selection; the deadline of
\* the timer has passed and no result was produced
C18_Witness ==
    /\ listeners = {}
    /\ selTimers = {}
    /\ lastNotify > 0
    /\ now - lastNotify >= DebounceMs
    /\ PhraseSelected
    /\ selOrigin = "user"
    /\ selection = NULL

(***************************************************************************)
(* SpecHost: the Reader around the hook, used with a mouse: the gloss      *)
(* effect on the SelectionResult, the dismissal of the popup and chapter   *)
(* navigation.                                                             *)
(***************************************************************************)
\* the argument of requestGloss for SelectionResult sel
GlossRequestFor(sel) ==
    [selectedText |-> sel.text, sentence |-> sel.sentence, bookTitle |-> BookMeta.title,
     author |-> BookMeta.author, bookId |-> BookMeta.id]

\* the gloss effect with no comparison to prevSelRef.current
GlossEffectEveryResult ==
    IF selection' # NULL /\ selection'.text # <<>> /\ last' \in {"word", "phrase"}
    THEN /\ prevSel' = selection'.text
         /\ glossRequest' = GlossRequestFor(selection')
         /\ askedText' = selection'.text
    ELSE /\ glossRequest' = NULL
         /\ UNCHANGED <<prevSel, askedText>>

\* the effect on [selection, bookMeta, requestGloss], run on the state the step leaves
GlossEffect ==
    IF selection' # NULL /\ selection'.text # <<>> /\ selection'.text # prevSel
    THEN /\ prevSel' = selection'.text
         /\ glossRequest' = GlossRequestFor(selection')
         /\ askedText' = selection'.text
    ELSE /\ glossRequest' = NULL
         /\ UNCHANGED <<prevSel, askedText>>

\* what a step of the hook does to the Reader: the effect runs, the chapter stays
HostFrame ==
    /\ GlossEffect
    /\ selChapter' = IF last' \in {"word", "phrase"} THEN chapterIndex ELSE selChapter
    /\ UNCHANGED <<listeners, chapterIndex, layoutShift, startWord, textVars, glossVars,
                   readVars>>

\* the popup is closed by a click on its backdrop, which is rendered with a rect only
handleCloseGloss ==
    /\ selection # NULL
    /\ clearSelection
    /\ prevSel' = <<>>
    /\ askedText' = <<>>
    /\ glossRequest' = NULL
    /\ clearGloss
    /\ UNCHANGED <<listeners, chapterIndex, selChapter, layoutShift, startWord, textVars,
                   readVars>>

\* setChapterIndex(i): the chapter's paragraphs are rendered in place of the current
\* ones, which collapses a native selection inside them
setChapterIndex(i) ==
    /\ Idle
    /\ i # chapterIndex
    /\ chapterIndex' = i
    /\ nativeSel' = IF nativeSel # NULL /\ NodeInside(nativeSel.node) THEN NULL ELSE nativeSel
    /\ selChangeQueued' = (nativeSel # NULL /\ NodeInside(nativeSel.node))
    /\ selOrigin' = IF nativeSel # NULL /\ NodeInside(nativeSel.node) THEN "none" ELSE selOrigin
    /\ last' = "none"
    /\ glossRequest' = NULL
    /\ UNCHANGED <<hook, caretApis, now, selection, selTimers, selTimeout, touchStart,
                   pendingTap, lastTapTime, lastNotify, burst, gesture, listeners, prevSel,
                   askedText, selChapter, layoutShift, startWord, textVars, glossVars,
                   readVars>>

PrevChapter == chapterIndex > 0 /\ setChapterIndex(chapterIndex - 1)

NextChapter == chapterIndex < NumChapters - 1 /\ setChapterIndex(chapterIndex + 1)

\* a chapter picked in the chapter list
PickChapter == \E i \in 0..(NumChapters - 1) : setChapterIndex(i)

InitReader ==
    /\ InitResolver("coords", {"caretRangeAtPoint"})
    /\ tText = <<>>
    /\ tOffset = 0
    /\ tResult = UNSET
    /\ InitHost

NextHost ==
    \/ \E p \in TapPoints : onClick(p) /\ HostFrame
    \/ \E r \in DragRanges : UserSelect(r) /\ HostFrame
    \/ UserCollapse /\ HostFrame
    \/ onSelectionChange /\ HostFrame
    \/ handleSelectionChange /\ HostFrame
    \/ Advance /\ HostFrame
    \/ handleCloseGloss
    \/ PrevChapter
    \/ NextChapter
    \/ PickChapter

SpecHost == InitReader /\ [][NextHost]_vars

\* C19: a live SelectionResult is cleared on chapter navigation: after the displayed
\* chapter changes the result is null, so a live result was always emitted on the
\* chapter that is displayed.
C19_ClearedOnNavigation ==
    selection # NULL => selChapter = chapterIndex

\* C20: a step issues a gloss request exactly when it leaves a SelectionResult whose text
\* is non-empty and differs from the text of the last request since the last dismissal;
\* a new result with the same text issues none, and the request carries selectedText and
\* sentence of the current result with bookTitle, author and bookId of the book.
C20_GlossRequestOnNewText ==
    [][/\ (glossRequest' # NULL)
            <=> (selection' # NULL /\ selection'.text # <<>> /\ selection'.text # askedText)
       /\ glossRequest' # NULL
            => glossRequest' = [selectedText |-> selection'.text,
                                sentence |-> selection'.sentence,
                                bookTitle |-> "Don Quijote",
                                author |-> "Cervantes",
                                bookId |-> "quijote"]]_vars

\* the native selection a tap committed was emitted again in phrase mode with the same
\* text, and no second request was issued
C20_Witness ==
    /\ last = "phrase"
    /\ selOrigin = "tap"
    /\ selection.text = <<"H", "o", "l", "a">>
    /\ askedText = <<"H", "o", "l", "a">>
    /\ glossRequest = NULL

(***************************************************************************)
(* useGloss: the gloss of a request, cached in localStorage under a key    *)
(* made of the book id, the sentence and the selected text.                *)
(***************************************************************************)
CACHE_PREFIX == "gloss:"

\* `${CACHE_PREFIX}${bookId}:${sentence}:${selectedText}`: the prefix and the book id are
\* atoms, the sentence and the selected text are spelled out character by character
getCacheKey(bookId, sentence, selectedText) ==
    <<CACHE_PREFIX, bookId, ":">> \o sentence \o <<":">> \o selectedText

\* localStorage.getItem(key)
getItem(storage, key) ==
    IF \E e \in storage : e.key = key
    THEN (CHOOSE e \in storage : e.key = key).value
    ELSE NULL

\* localStorage.setItem(key, value)
setItem(storage, key, value) ==
    {e \in storage : e.key # key} \cup {[key |-> key, value |-> value]}

\* JSON.stringify(value) and JSON.parse(text) of a GlossResponse
JSONstringify(value) == [json |-> value]
JSONparse(text) == text.json

\* what the gloss endpoint answers to req: the gloss of the selected text in its sentence
GlossResponse(req) ==
    [selected |-> req.selectedText, fullSentence |-> req.sentence, book |-> req.bookTitle]

\* the messages of a failed fetchGloss: a non-OK response, a network error
FetchErrors == {"Gloss API error: 500", "Failed to fetch"}

\* fetchGloss calls the model follows
MaxFetches == 3

\* requestGloss(req) up to its await: answered from the cache, or the fetch is started
requestGloss(req) ==
    LET cacheKey == getCacheKey(req.bookId, req.sentence, req.selectedText)
        cached == getItem(glossCache, cacheKey)
    IN IF cached # NULL
       THEN /\ gloss' = JSONparse(cached)
            /\ error' = NULL
            /\ loading' = FALSE
            /\ latest' = [req |-> req, id |-> 0]
            /\ settled' = NULL
            /\ UNCHANGED <<glossCache, inFlight, fetchCount, fetched>>
       ELSE /\ fetchCount < MaxFetches
            /\ loading' = TRUE
            /\ error' = NULL
            /\ gloss' = NULL
            /\ fetchCount' = fetchCount + 1
            /\ inFlight' = inFlight \cup {[id |-> fetchCount + 1, req |-> req]}
            /\ latest' = [req |-> req, id |-> fetchCount + 1]
            /\ settled' = NULL
            /\ UNCHANGED <<glossCache, fetched>>

\* requestGloss after its await, fetchGloss having returned the gloss
fetchResolves(f) ==
    /\ f \in inFlight
    /\ inFlight' = inFlight \ {f}
    /\ gloss' = GlossResponse(f.req)
    /\ glossCache' = setItem(glossCache,
                             getCacheKey(f.req.bookId, f.req.sentence, f.req.selectedText),
                             JSONstringify(GlossResponse(f.req)))
    /\ loading' = FALSE
    /\ settled' = [id |-> f.id, req |-> f.req, ok |-> TRUE]
    /\ fetched' = fetched \cup {f.req}
    /\ glossRequest' = NULL
    /\ UNCHANGED <<error, fetchCount, latest>>

\* requestGloss after its await, fetchGloss having thrown
fetchRejects(f, message) ==
    /\ f \in inFlight
    /\ inFlight' = inFlight \ {f}
    /\ error' = [message |-> message]
    /\ loading' = FALSE
    /\ settled' = [id |-> f.id, req |-> f.req, ok |-> FALSE]
    /\ glossRequest' = NULL
    /\ UNCHANGED <<gloss, glossCache, fetchCount, fetched, latest>>

(***************************************************************************)
(* SpecCache: useGloss on its own, asked for the glosses of selections on  *)
(* three paragraphs.                                                       *)
(***************************************************************************)
\* a reference to a verse, and a reference to a verse of a later book
ParaVerse == <<"L", "e", "e", " ", "3", ":", "1", "6">>
ParaVerses == <<"L", "e", "e", " ", "3", ":", "1", "6", ":", "3">>

\* the requests of a tap on "3:16" in ParaVerse, of the phrase "16" selected in
\* ParaVerses and of a tap on "Hola" in Paragraph
GlossRequests ==
    { GlossRequestFor(WordResult(ParaVerse, ParaVerse, 5)),
      GlossRequestFor([text |-> Trim(Slice(ParaVerses, 6, 8)),
                       sentence |-> extractSentence(ParaVerses, ParaVerses, 6)]),
      GlossRequestFor(WordResult(Paragraph, Paragraph, 1)) }

\* what useGloss leaves alone
cacheFrame ==
    <<resolverVars, textVars, layoutShift, startWord, listeners, chapterIndex, prevSel,
      askedText, selChapter, readVars>>

NextCache ==
    \/ \E req \in GlossRequests :
          requestGloss(req) /\ glossRequest' = req /\ UNCHANGED cacheFrame
    \/ clearGloss /\ glossRequest' = NULL /\ UNCHANGED cacheFrame
    \/ \E f \in inFlight : fetchResolves(f) /\ UNCHANGED cacheFrame
    \/ \E f \in inFlight, message \in FetchErrors :
          fetchRejects(f, message) /\ UNCHANGED cacheFrame

SpecCache == InitReader /\ [][NextCache]_vars

\* C21: a request whose triple was fetched before is answered from the cache, with no
\* fetch and with the gloss of its triple; a failed fetch stores nothing; a request
\* answered from the cache is answered with the gloss of its own triple.
C21_GlossCachedByTriple ==
    [][/\ (glossRequest' # NULL /\ glossRequest' \in fetched)
            => (inFlight' = inFlight /\ gloss' = GlossResponse(glossRequest'))
       /\ (settled' # NULL /\ ~settled'.ok) => glossCache' = glossCache
       /\ (glossRequest' # NULL /\ inFlight' = inFlight)
            => gloss' = GlossResponse(glossRequest')]_vars

(***************************************************************************)
(* SpecGloss: the Reader with useTextSelection and useGloss, used with a   *)
(* mouse on the first chapter: every gloss request the effect issues goes  *)
(* through requestGloss, and the fetches settle in any order.              *)
(***************************************************************************)
\* what a step of the hook does to the Reader and to useGloss
GlossFrame ==
    /\ GlossEffect
    /\ selChapter' = IF last' \in {"word", "phrase"} THEN chapterIndex ELSE selChapter
    /\ IF glossRequest' # NULL
       THEN requestGloss(glossRequest')
       ELSE settled' = NULL
            /\ UNCHANGED <<gloss, loading, error, glossCache, inFlight, fetchCount, fetched,
                           latest>>
    /\ UNCHANGED <<listeners, chapterIndex, layoutShift, startWord, textVars, readVars>>

\* what the settling of a fetch leaves alone
settleFrame ==
    <<hook, caretApis, now, selection, nativeSel, selChangeQueued, selTimers, selTimeout,
      touchStart, pendingTap, lastTapTime, lastNotify, burst, selOrigin, gesture, textVars,
      layoutShift, startWord, listeners, chapterIndex, prevSel, askedText, selChapter,
      readVars>>

NextGloss ==
    \/ \E p \in TapPoints : onClick(p) /\ GlossFrame
    \/ \E r \in DragRanges : UserSelect(r) /\ GlossFrame
    \/ UserCollapse /\ GlossFrame
    \/ onSelectionChange /\ GlossFrame
    \/ handleSelectionChange /\ GlossFrame
    \/ Advance /\ GlossFrame
    \/ handleCloseGloss
    \/ \E f \in inFlight : fetchResolves(f) /\ last' = "none" /\ UNCHANGED settleFrame
    \/ \E f \in inFlight, message \in FetchErrors :
          fetchRejects(f, message) /\ last' = "none" /\ UNCHANGED settleFrame

SpecGloss == InitReader /\ [][NextGloss]_vars

\* a tap or a selection-change that resolves nothing, no fetch settling in the step
SelectionFailureStep == (TapFailureStep \/ PhraseFailureStep) /\ settled' = NULL

\* C22: after a fetch fails, error is non-null, loading is false, no gloss of the failed
\* request is shown and the SelectionResult is as it was; a tap or a selection-change
\* that resolves nothing leaves the error state as it was.
C22_FetchFailureIsErrorState ==
    [][/\ (settled' # NULL /\ ~settled'.ok)
            => /\ error' # NULL
               /\ loading' = FALSE
               /\ gloss' # GlossResponse(settled'.req)
               /\ selection' = selection
       /\ SelectionFailureStep => error' = error]_vars

\* the gloss popup renders a gloss: it has a rect and a gloss
GlossShown == selection # NULL /\ gloss # NULL

\* C29: a gloss shown with loading false is the gloss of the most recent request, which
\* is the request for the current SelectionResult's sentence and text; loading is true
\* while the most recent request is in flight.
C29_GlossOfLatestRequest ==
    /\ (GlossShown /\ ~loading)
          => /\ latest # NULL
             /\ latest.req = GlossRequestFor(selection)
             /\ gloss = GlossResponse(latest.req)
    /\ (latest # NULL /\ \E f \in inFlight : f.id = latest.id) => loading

\* C23: the sentence of every result phrase mode emits is extractSentence applied to
\* the flat text of the paragraph holding the selection start, at the character offset
\* of the selection start in that text, whatever the start container is.
C23_PhraseSentenceByExtraction ==
    [][(handleSelectionChange /\ PhraseSelected)
          => selection'.sentence
                = extractSentence(ParagraphTextOf(nativeSel.node),
                                  ParagraphTextOf(nativeSel.node), nativeSel.start)]_vars

\* the stated token: the start and the end of the maximal run of non-whitespace
\* characters that contains the caret
StatedRunStart(text, offset) ==
    SetMin({b \in 0..offset : \A i \in (b + 1)..offset : NonSpace(text[i])})

StatedRunEnd(text, offset) ==
    SetMax({e \in offset..Len(text) : \A i \in (offset + 1)..e : NonSpace(text[i])})

StatedRun(text, offset) ==
    Slice(text, StatedRunStart(text, offset), StatedRunEnd(text, offset))

\* C24: at every offset from 0 to the length of the text, the word is taken from the
\* maximal run of non-whitespace characters containing the caret: a word resolves when
\* that run is not empty (and stripping leaves something of it), the word is what
\* stripping leaves of the run, and nothing resolves when the run is empty.
C24_TokenIsMaximalRun ==
    Resolved =>
        /\ StripPunctuation(StatedRun(tText, tOffset)) # <<>>
              => /\ tResult.word # NULL
                 /\ tResult.word.text = StripPunctuation(StatedRun(tText, tOffset))
                 /\ StatedRunStart(tText, tOffset) <= tResult.word.start
                 /\ tResult.word.end <= StatedRunEnd(tText, tOffset)
        /\ StatedRun(tText, tOffset) = <<>> => tResult.word = NULL

\* the status the gloss endpoint answers with: 400 when selectedText or sentence is empty
glossHandler(body) ==
    IF body.selectedText = <<>> \/ body.sentence = <<>> THEN 400 ELSE 200

\* what handleSelectionChange emits for a selection that starts at offset `offset` of the
\* text node `text` and runs to the end of the following paragraph
PhraseFrom(text, offset) ==
    [text |-> Trim(SliceFrom(text, offset) \o <<"\n">> \o ParagraphAdios),
     sentence |-> extractSentence(text, text, offset),
     mode |-> "phrase"]

\* C30: every SelectionResult, of a tap and of a phrase, has a non-empty sentence, so
\* the gloss request made for it has a non-empty selectedText and a non-empty sentence
\* and the endpoint does not reject it with status 400.
C30_SentenceNeverEmpty ==
    Resolved =>
        /\ tResult.word # NULL
              => /\ tResult.word.sentence # <<>>
                 /\ GlossRequestFor(tResult.word).selectedText # <<>>
                 /\ glossHandler(GlossRequestFor(tResult.word)) # 400
        /\ tText # <<>>
              => /\ PhraseFrom(tText, tOffset).sentence # <<>>
                 /\ glossHandler(GlossRequestFor(PhraseFrom(tText, tOffset))) # 400

\* the pending-gesture slot of the mounted revision
GestureSlot == IF hook = "coords" THEN touchStart ELSE pendingTap

\* a step of a touch-end handler, and of a touch-start handler with two contacts
TouchEndHandled ==
    \E m \in Moves, changed \in {1, 2} :
        onTouchEnd(m, changed) \/ onTouchEndPending(m, changed)

MultiTouchStartHandled ==
    \E p \in TapPoints : onTouchStart(p, 2) \/ onTouchStartPending(p, 2)

\* C25: the slot is empty after every touch-end and after a touch-start with other than
\* one contact, and a touch-end passes a tap only with the slot filled by the
\* single-contact touch-start of the gesture that is ending.
C25_SlotConsumedAtGestureEnd ==
    [][/\ TouchEndHandled => GestureSlot' = NULL
       /\ MultiTouchStartHandled => GestureSlot' = NULL
       /\ (TouchEndHandled /\ (lastTapTime' # lastTapTime \/ last' = "word"))
             => /\ GestureSlot # NULL
                /\ gesture.phase = "down"
                /\ GestureSlot.time = gesture.t0
                /\ GestureSlot.x = gesture.x0
                /\ GestureSlot.y = gesture.y0]_vars

\* a touch ended as a tap that resolved a word, and the slot is empty
C25_Witness ==
    /\ hook = "coords"
    /\ gesture.phase = "up"
    /\ gesture.touchWord
    /\ last = "word"
    /\ touchStart = NULL

(***************************************************************************)
(* useReadingPosition and the chapter navigation of the Reader.  The       *)
(* Reader mounts the hook twice: once for chapter 0, which yields          *)
(* getLastChapter, and once for the chapter displayed.  Scroll positions   *)
(* are counted in half pixels, window.scrollY being fractional.            *)
(***************************************************************************)
POSITION_PREFIX == "reading-pos:"

\* `${POSITION_PREFIX}${bookId}:${chapterIndex}`
getKey(bookId, index) == <<POSITION_PREFIX, bookId, ":", index>>

\* String(window.scrollY) and parseInt(saved, 10), which drops the fraction
StringOf(y) == [text |-> y]
parseInt10(saved) == (saved.text \div 2) * 2

\* the highest index getLastChapter looks up
LastChapterScan == 100

getLastChapter(bookId) ==
    LET stored == {i \in 0..LastChapterScan : getItem(positions, getKey(bookId, i)) # NULL}
    IN IF stored = {} THEN 0 ELSE SetMax(stored)

\* originalIndex of the chapters of displayChapters (showPreface stays false)
displayChapters ==
    IF bookData.loaded
    THEN {i \in DOMAIN bookData.isPreface : ~bookData.isPreface[i]}
    ELSE {}

\* the effect on [displayChapters, displayIdx] left out
JumpToVisibleNever(index) == index

\* the chapter the effect on [displayChapters, displayIdx] leaves displayed for index
JumpToVisible(index) ==
    IF displayChapters # {} /\ index \notin displayChapters
    THEN SetMin(displayChapters)
    ELSE index

\* null for a chapter (an index that is no chapter's)
NoChapter == -1

\* prevChapter and nextChapter: originalIndex of the neighbour in displayChapters, if any
prevChapter ==
    IF chapterIndex \in displayChapters /\ \E i \in displayChapters : i < chapterIndex
    THEN SetMax({i \in displayChapters : i < chapterIndex})
    ELSE NoChapter

nextChapter ==
    IF chapterIndex \in displayChapters /\ \E i \in displayChapters : i > chapterIndex
    THEN SetMin({i \in displayChapters : i > chapterIndex})
    ELSE NoChapter

\* the window and the hook's closures as a record, threaded through the effects
WindowState ==
    [y |-> scrollY, frames |-> frames, ticking |-> ticking, moved |-> FALSE, done |-> NULL]

\* history: where the claim wants chapter c restored
WantedPosition(c) ==
    IF c \in DOMAIN scrolledAt /\ scrolledAt[c] # -1 THEN scrolledAt[c] ELSE 0

\* the restore effect of the hook instance `instance` for chapter c
RestoreEffect(st, c, instance) ==
    LET saved == getItem(positions, getKey(BookMeta.id, c))
    IN IF saved # NULL
       THEN [st EXCEPT !.frames =
                Append(@, [kind |-> "restore", chapter |-> c, listener |-> instance,
                           y |-> parseInt10(saved), want |-> WantedPosition(c)])]
       ELSE [st EXCEPT !.y = 0,
                       !.moved = @ \/ st.y # 0,
                       !.done = IF instance = "current"
                                THEN [chapter |-> c, to |-> 0, want |-> WantedPosition(c)]
                                ELSE @]

\* the save effect of the instance: the listener of the previous run is removed (its
\* scheduled save stays scheduled), a listener with ticking = false is added
SaveEffect(st, instance) ==
    [st EXCEPT !.frames = [k \in 1..Len(@) |->
                              IF @[k].kind = "save" /\ @[k].listener = instance
                              THEN [@[k] EXCEPT !.listener = "removed"]
                              ELSE @[k]],
               !.ticking = @ \ {instance}]

\* the effects of useReadingPosition(bookMeta.id, c) when c changes
Displayed(st, c) == SaveEffect(RestoreEffect(st, c, "current"), "current")

\* onScroll of the listener of `instance`, chapter c being displayed
onScroll(st, instance, c) ==
    IF instance \in st.ticking THEN st
    ELSE [st EXCEPT !.ticking = @ \cup {instance},
                    !.frames = Append(@, [kind |-> "save",
                                          chapter |-> IF instance = "first" THEN 0 ELSE c,
                                          listener |-> instance, y |-> 0, want |-> 0])]

\* the scroll event of a scroll position that changed, heard by both listeners
DispatchScroll(st, c) ==
    IF st.moved
    THEN [onScroll(onScroll(st, "first", c), "current", c) EXCEPT !.moved = FALSE]
    ELSE st

\* animation-frame callbacks that may be waiting when the chapter is changed
MaxFrames == 3

\* setChapterIndex(index) with the effects of the renders that follow: the position hook
\* for index, the jump to the first visible chapter and the position hook for it
showChapter(index) ==
    /\ Len(frames) < MaxFrames
    /\ LET s1 == Displayed(WindowState, index)
           target == JumpToVisible(index)
           s2 == IF target # index THEN Displayed(s1, target) ELSE s1
           s3 == DispatchScroll(s2, target)
       IN /\ chapterIndex' = target
          /\ scrollY' = s3.y
          /\ frames' = s3.frames
          /\ ticking' = s3.ticking
          /\ restored' = s3.done
    /\ UNCHANGED <<bookData, positions, savedOn, scrolledAt>>

\* the Anterior and Siguiente buttons, rendered with a neighbour only
onPrev == bookData.loaded /\ prevChapter # NoChapter /\ showChapter(prevChapter)

onNext == bookData.loaded /\ nextChapter # NoChapter /\ showChapter(nextChapter)

\* a chapter of the chapter list, rendered once the book is loaded
onSelectChapter(index) ==
    /\ bookData.loaded
    /\ index # chapterIndex
    /\ showChapter(index)

\* loadBook resolves: displayChapters is filled and the jump effect runs
setBookData ==
    /\ ~bookData.loaded
    /\ bookData' = [bookData EXCEPT !.loaded = TRUE]
    /\ LET target == IF \E i \in DOMAIN bookData.isPreface : ~bookData.isPreface[i]
                        /\ (chapterIndex \notin DOMAIN bookData.isPreface
                            \/ bookData.isPreface[chapterIndex])
                     THEN SetMin({i \in DOMAIN bookData.isPreface : ~bookData.isPreface[i]})
                     ELSE chapterIndex
           s1 == IF target # chapterIndex THEN Displayed(WindowState, target)
                 ELSE WindowState
           s2 == DispatchScroll(s1, target)
       IN /\ chapterIndex' = target
          /\ scrollY' = s2.y
          /\ frames' = s2.frames
          /\ ticking' = s2.ticking
          /\ restored' = s2.done
    /\ UNCHANGED <<positions, savedOn, scrolledAt>>

\* positions the user scrolls to: the top, 100 px and 200.5 px down
ScrollYs == {0, 200, 401}

\* the user scrolls the window to y, the page of the loaded book being laid out and
\* the frame of an earlier scroll having run
Scroll(y) ==
    /\ bookData.loaded
    /\ frames = <<>>
    /\ y # scrollY
    /\ scrolledAt' = [scrolledAt EXCEPT ![chapterIndex] = y]
    /\ LET st == DispatchScroll([WindowState EXCEPT !.y = y, !.moved = TRUE], chapterIndex)
       IN /\ scrollY' = st.y
          /\ frames' = st.frames
          /\ ticking' = st.ticking
    /\ restored' = NULL
    /\ UNCHANGED <<chapterIndex, bookData, positions, savedOn>>

\* the callbacks of one animation frame, in the order they were requested
RECURSIVE RunFrames(_, _)
RunFrames(st, k) ==
    IF k > Len(frames) THEN st
    ELSE LET f == frames[k]
         IN IF f.kind = "restore"
            THEN RunFrames([st EXCEPT !.y = f.y,
                                      !.moved = @ \/ st.y # f.y,
                                      !.done = IF f.listener = "current"
                                               THEN [chapter |-> f.chapter, to |-> f.y,
                                                     want |-> f.want]
                                               ELSE @], k + 1)
            ELSE RunFrames([st EXCEPT !.positions =
                                          setItem(@, getKey(BookMeta.id, f.chapter),
                                                  StringOf(st.y)),
                                      !.ticking = @ \ {f.listener},
                                      !.savedOn = chapterIndex], k + 1)

\* the browser runs an animation frame
AnimationFrame ==
    /\ frames # <<>>
    /\ LET s1 == RunFrames([y |-> scrollY, frames |-> <<>>, ticking |-> ticking,
                            moved |-> FALSE, done |-> NULL, positions |-> positions,
                            savedOn |-> savedOn], 1)
           s2 == DispatchScroll(s1, chapterIndex)
       IN /\ scrollY' = s2.y
          /\ frames' = s2.frames
          /\ ticking' = s2.ticking
          /\ positions' = s2.positions
          /\ savedOn' = s2.savedOn
          /\ restored' = s2.done
    /\ UNCHANGED <<chapterIndex, bookData, scrolledAt>>

\* the reader goes back to the book list and opens the book again: the Reader is
\* mounted with chapterIndex = getLastChapter(bookMeta.id), still loading
MountReader ==
    /\ bookData.loaded
    /\ frames = <<>>
    /\ bookData' = [bookData EXCEPT !.loaded = FALSE]
    /\ chapterIndex' = getLastChapter(BookMeta.id)
    /\ LET s0 == [WindowState EXCEPT
                     !.ticking = {},
                     !.frames = [k \in 1..Len(@) |->
                                    IF @[k].kind = "save"
                                    THEN [@[k] EXCEPT !.listener = "removed"]
                                    ELSE @[k]]]
           s1 == SaveEffect(RestoreEffect(s0, 0, "first"), "first")
           s2 == Displayed(s1, getLastChapter(BookMeta.id))
           s3 == DispatchScroll(s2, getLastChapter(BookMeta.id))
       IN /\ scrollY' = s3.y
          /\ frames' = s3.frames
          /\ ticking' = s3.ticking
          /\ restored' = s3.done
    /\ UNCHANGED <<positions, savedOn, scrolledAt>>

(***************************************************************************)
(* SpecRead: a book is opened with nothing stored; the user turns chapters *)
(* and scrolls, leaves and comes back.                                     *)
(***************************************************************************)
\* the books: no preface, a preface first, a preface second, prefaces only
Books ==
    { [i \in 0..(NumChapters - 1) |-> FALSE],
      [i \in 0..(NumChapters - 1) |-> i = 0],
      [i \in 0..(NumChapters - 1) |-> i = 1],
      [i \in 0..(NumChapters - 1) |-> TRUE] }

InitReadBook ==
    /\ InitResolver("coords", {"caretRangeAtPoint"})
    /\ tText = <<>>
    /\ tOffset = 0
    /\ tResult = UNSET
    /\ InitPage
    /\ bookData \in {[loaded |-> FALSE, isPreface |-> b] : b \in Books}
    /\ InitPosition

\* what the position hook and the navigation leave alone
readFrame ==
    <<resolverVars, textVars, layoutShift, startWord, listeners, prevSel, glossRequest,
      askedText, selChapter, glossVars>>

NextRead ==
    \/ setBookData /\ UNCHANGED readFrame
    \/ onPrev /\ UNCHANGED readFrame
    \/ onNext /\ UNCHANGED readFrame
    \/ \E i \in DOMAIN bookData.isPreface : onSelectChapter(i) /\ UNCHANGED readFrame
    \/ \E y \in ScrollYs : Scroll(y) /\ UNCHANGED readFrame
    \/ AnimationFrame /\ UNCHANGED readFrame
    \/ MountReader /\ UNCHANGED readFrame

SpecRead == InitReadBook /\ [][NextRead]_vars

\* C26: getLastChapter(bookId) is the chapter that was displayed when a position was
\* last saved for the book, and 0 when none was ever saved.
C26_LastChapterIsMostRecent ==
    getLastChapter(BookMeta.id) = IF savedOn = -1 THEN 0 ELSE savedOn

\* C27: a chapter that becomes displayed is restored to the position of the last scroll
\* made while it was displayed, or to the top when there was none; the position stored
\* for a chapter does not change in a step during which another chapter is displayed.
C27_PositionRestoredPerChapter ==
    [][/\ restored' # NULL => restored'.to = restored'.want
       /\ \A c \in DOMAIN scrolledAt :
             (c # chapterIndex /\ c # chapterIndex')
                => getItem(positions', getKey(BookMeta.id, c))
                      = getItem(positions, getKey(BookMeta.id, c))]_vars

\* the indices of the chapters that are not a preface
StatedVisible == {i \in DOMAIN bookData.isPreface : ~bookData.isPreface[i]}

\* C28: with the book loaded and a chapter that is not a preface in it, the chapter
\* displayed is a visible one; an index picked in the list or restored from storage
\* that is not visible is replaced by the first visible chapter; Prev and Next move to
\* the adjacent visible chapter, and there is no Prev at the first visible chapter and
\* no Next at the last.
C28_VisibleChapterDisplayed ==
    [][/\ (bookData'.loaded /\ StatedVisible # {}) => chapterIndex' \in StatedVisible
       /\ \A i \in DOMAIN bookData.isPreface :
             (onSelectChapter(i) /\ StatedVisible # {} /\ i \notin StatedVisible)
                => chapterIndex' = SetMin(StatedVisible)
       /\ (setBookData /\ StatedVisible # {} /\ chapterIndex \notin StatedVisible)
             => chapterIndex' = SetMin(StatedVisible)
       /\ onPrev => /\ chapterIndex' \in StatedVisible
                    /\ chapterIndex' < chapterIndex
                    /\ \A i \in StatedVisible : ~(chapterIndex' < i /\ i < chapterIndex)
       /\ onNext => /\ chapterIndex' \in StatedVisible
                    /\ chapterIndex' > chapterIndex
                    /\ \A i \in StatedVisible : ~(chapterIndex < i /\ i < chapterIndex')
       /\ (bookData.loaded /\ StatedVisible # {} /\ chapterIndex = SetMin(StatedVisible))
             => (prevChapter = NoChapter /\ ~onPrev)
       /\ (bookData.loaded /\ StatedVisible # {} /\ chapterIndex = SetMax(StatedVisible))
             => (nextChapter = NoChapter /\ ~onNext)]_vars

\* the preface, chapter 0, was picked in the list: the position hook ran for it, and
\* chapter 1, the first visible one, is displayed
C28_Witness ==
    /\ bookData.loaded
    /\ bookData.isPreface[0]
    /\ chapterIndex = 1
    /\ restored # NULL
    /\ restored.chapter = 0

====
